---- MODULE Spec2Model ----
(***************************************************************************)
(* YandexMetrikaClient (src/src/client.ts): the query builder (one public  *)
(* operation per report, each validating its parameters and assembling a   *)
(* URL) and the transport core (makeRequest: fetch with a timeout timer,   *)
(* classification of failures, retry with linear backoff).                 *)
(*                                                                         *)
(* JavaScript strings are TLA+ strings, read character by character with   *)
(* Len, SubSeq and \o.  Other JavaScript values are tagged records         *)
(* [t |-> typeof, v |-> value].                                            *)
(***************************************************************************)
EXTENDS Integers, Sequences, FiniteSets, TLC

VARIABLES
  token,        \* this.token
  configInput,  \* the ClientConfig object handed to the constructor
  config,       \* this.config
  lenientDate,  \* whether the engine's Date parser rolls over a day past the month's end
  call,         \* call id -> the state of that logical call
  attr          \* one application of buildDimensionNameWithAttribution

vars == <<token, configInput, config, lenientDate, call, attr>>

----------------------------------------------------------------------------
(* JavaScript values *)

Undefined == [t |-> "undefined"]
Str(s) == [t |-> "string", v |-> s]
Num(n) == [t |-> "number", v |-> n]
Arr(l) == [t |-> "object", v |-> l]
Bool(b) == [t |-> "boolean", v |-> b]

typeof(x) == x.t

\* ToBoolean: undefined, "" and 0 are falsy
Truthy(x) ==
  CASE x.t = "undefined" -> FALSE
    [] x.t = "string" -> x.v # ""
    [] x.t = "number" -> x.v # 0
    [] x.t = "boolean" -> x.v
    [] OTHER -> TRUE

\* A parameter's default value applies when the argument is undefined
Default(x, d) == IF x = Undefined THEN d ELSE x

----------------------------------------------------------------------------
(* Strings *)

Char(s, i) == SubSeq(s, i, i)

StartsWith(s, p) == Len(p) <= Len(s) /\ SubSeq(s, 1, Len(p)) = p

\* String.prototype.includes
includes(s, sub) ==
  \E i \in 1..(Len(s) - Len(sub) + 1) : SubSeq(s, i, i + Len(sub) - 1) = sub

Digits == {"0", "1", "2", "3", "4", "5", "6", "7", "8", "9"}

DigitChar(d) ==
  CASE d = 0 -> "0" [] d = 1 -> "1" [] d = 2 -> "2" [] d = 3 -> "3" [] d = 4 -> "4"
    [] d = 5 -> "5" [] d = 6 -> "6" [] d = 7 -> "7" [] d = 8 -> "8" [] d = 9 -> "9"

DigitVal(ch) ==
  CASE ch = "0" -> 0 [] ch = "1" -> 1 [] ch = "2" -> 2 [] ch = "3" -> 3 [] ch = "4" -> 4
    [] ch = "5" -> 5 [] ch = "6" -> 6 [] ch = "7" -> 7 [] ch = "8" -> 8 [] ch = "9" -> 9

\* Number -> string, as a template literal renders an integer
RECURSIVE NatToString(_)
NatToString(n) ==
  IF n < 10 THEN DigitChar(n) ELSE NatToString(n \div 10) \o DigitChar(n % 10)

NumberToString(n) == IF n < 0 THEN "-" \o NatToString(-n) ELSE NatToString(n)

\* `${x}` in a template literal
Interp(x) ==
  CASE x.t = "string" -> x.v
    [] x.t = "number" -> NumberToString(x.v)
    [] x.t = "function" -> x.v
    [] OTHER -> "undefined"

\* Array.prototype.join over an array of strings
RECURSIVE join(_, _)
join(list, sep) ==
  IF Len(list) = 0 THEN ""
  ELSE IF Len(list) = 1 THEN list[1]
  ELSE list[1] \o sep \o join(Tail(list), sep)

Unreserved ==
  {"A", "B", "C", "D", "E", "F", "G", "H", "I", "J", "K", "L", "M",
   "N", "O", "P", "Q", "R", "S", "T", "U", "V", "W", "X", "Y", "Z",
   "a", "b", "c", "d", "e", "f", "g", "h", "i", "j", "k", "l", "m",
   "n", "o", "p", "q", "r", "s", "t", "u", "v", "w", "x", "y", "z",
   "-", "_", ".", "!", "~", "*", "'", "(", ")"} \cup Digits

\* The UTF-8 percent escape of a reserved ASCII character
PercentEscape(ch) ==
  CASE ch = " " -> "%20" [] ch = "=" -> "%3D" [] ch = ">" -> "%3E" [] ch = "<" -> "%3C"
    [] ch = ":" -> "%3A" [] ch = "/" -> "%2F" [] ch = "," -> "%2C" [] ch = "+" -> "%2B"
    [] ch = "&" -> "%26" [] ch = "?" -> "%3F" [] ch = "#" -> "%23" [] ch = "%" -> "%25"

RECURSIVE encodeURIComponent(_)
encodeURIComponent(s) ==
  IF Len(s) = 0 THEN ""
  ELSE (IF Head(s) \in Unreserved THEN Head(s) ELSE PercentEscape(Head(s)))
         \o encodeURIComponent(Tail(s))

----------------------------------------------------------------------------
(* Program constants *)

API_BASE == "https://api-metrika.yandex.net"
API_MANAGMENT == "management/v1"
API_REPORTS == "stat/v1/data"

DEFAULT_TIMEOUT == 30000
DEFAULT_RETRIES == 3
DEFAULT_RETRY_DELAY == 1000

----------------------------------------------------------------------------
(* Construction *)

\* x || d on an optional number
OrDefault(x, d) == IF Truthy(x) THEN x.v ELSE d

constructor(cfg) ==
  [timeout    |-> OrDefault(cfg.timeout, DEFAULT_TIMEOUT),
   retries    |-> OrDefault(cfg.retries, DEFAULT_RETRIES),
   retryDelay |-> OrDefault(cfg.retryDelay, DEFAULT_RETRY_DELAY)]

\* The configurations tried: each field unset, zero, negative or positive
MaxRetriesInput == 4
TimeoutInputs == {Undefined, Num(0), Num(-1), Num(5000)}
RetriesInputs == {Undefined} \cup {Num(n) : n \in -1..MaxRetriesInput}
RetryDelayInputs == {Undefined, Num(0), Num(-5), Num(250)}

ConfigInputs ==
  {cfg \in [timeout : TimeoutInputs, retries : RetriesInputs, retryDelay : RetryDelayInputs] :
     cfg.timeout = Undefined \/ (cfg.retries = Undefined /\ cfg.retryDelay = Undefined)}

----------------------------------------------------------------------------
(* The state of one logical call *)

NoResult == [kind |-> "none"]
NoResponse == [status |-> 0, body |-> ""]

IdleCall ==
  [pc        |-> "idle",      \* idle, sending, readingText, readingJson, delaying, success, failed
   op        |-> "",          \* the public operation called
   args      |-> <<>>,        \* its arguments
   url       |-> "",          \* makeRequest's url parameter
   attempt   |-> 0,           \* makeRequest's attempt parameter
   processed |-> Undefined,   \* getDataByTime's processedDimensions
   log       |-> <<>>,        \* the fetches issued and the backoff waits performed, in order
   timers    |-> <<>>,        \* the timeout timer of each attempt
   outcomes  |-> <<>>,        \* how each finished attempt ended
   resp      |-> NoResponse,  \* the response whose body is being read
   result    |-> NoResult]    \* what the caller's promise settled with

Terminal == {"success", "failed"}

Fetches(rec) == SelectSeq(rec.log, LAMBDA e : e.e = "fetch")
Waits(rec) == SelectSeq(rec.log, LAMBDA e : e.e = "wait")
NumRequests(rec) == Len(Fetches(rec))

----------------------------------------------------------------------------
(* Transport core: makeRequest *)

Error(message) == [name |-> "Error", message |-> message]
AbortError == [name |-> "AbortError", message |-> "This operation was aborted"]
TypeError(message) == [name |-> "TypeError", message |-> message]
SyntaxError(message) == [name |-> "SyntaxError", message |-> message]

isRetryableError(error) ==
  \/ error.name = "AbortError"
  \/ (error.message # "" /\ includes(error.message, "500"))
  \/ (error.message # "" /\ includes(error.message, "502"))
  \/ (error.message # "" /\ includes(error.message, "503"))

ok_only200(status) == status = 200

\* response.ok
ok(status) == status \in 200..299

\* The message of the error thrown for a response that is not ok
HttpErrorMessage(status, errorText) ==
  "Yandex Metrika error " \o NumberToString(status) \o ": " \o errorText

BackoffMs_exponential(cfg, attempt) == cfg.retryDelay * (2 ^ (attempt - 1))

\* delay's argument in the catch block
BackoffMs(cfg, attempt) == cfg.retryDelay * attempt

\* makeRequest up to its await of fetch: arm the timeout timer, issue the GET
StartAttempt(rec, url, attempt) ==
  [rec EXCEPT
     !.pc = "sending",
     !.url = url,
     !.attempt = attempt,
     !.timers = Append(@, [ms |-> config.timeout, st |-> "armed"]),
     !.log = Append(@, [e |-> "fetch", url |-> url, attempt |-> attempt,
                        Authorization |-> "OAuth " \o token])]

\* The promise of the logical call rejects with error
Reject(rec, error) ==
  [rec EXCEPT !.pc = "failed",
              !.result = [kind |-> "error", error |-> error, attempt |-> rec.attempt]]

\* The promise of the logical call resolves with value
Resolve(rec, value) ==
  [rec EXCEPT !.pc = "success", !.result = [kind |-> "value", value |-> value]]

catch_oneMore(rec, error) ==
  IF rec.attempt <= config.retries /\ isRetryableError(error)
  THEN [rec EXCEPT !.pc = "delaying",
                   !.log = Append(@, [e |-> "wait", ms |-> BackoffMs(config, rec.attempt)])]
  ELSE Reject(rec, error)

\* makeRequest's catch block, up to its await of delay
catch(rec, error) ==
  IF rec.attempt < config.retries /\ isRetryableError(error)
  THEN [rec EXCEPT !.pc = "delaying",
                   !.log = Append(@, [e |-> "wait", ms |-> BackoffMs(config, rec.attempt)])]
  ELSE Reject(rec, error)

RECURSIVE ParseNat(_)
ParseNat(text) ==
  IF Len(text) = 0 THEN 0
  ELSE 10 * ParseNat(SubSeq(text, 1, Len(text) - 1)) + DigitVal(Char(text, Len(text)))

\* JSON.parse on the texts the remote sends: an empty object, a number, or no JSON at all
JsonParse(text) ==
  IF text = "{}" THEN [ok |-> TRUE, value |-> Arr(<<>>)]
  ELSE IF text # "" /\ (\A i \in 1..Len(text) : Char(text, i) \in Digits)
          /\ (Len(text) = 1 \/ Char(text, 1) # "0")
  THEN [ok |-> TRUE, value |-> Num(ParseNat(text))]
  ELSE [ok |-> FALSE, value |-> Undefined]

Ended(rec, outcome) == [rec EXCEPT !.outcomes = Append(@, outcome)]

SetTimer(rec, i, st) == [rec EXCEPT !.timers[i].st = st]

\* What the remote may answer
Response(status, body) == [status |-> status, body |-> body]
Responses ==
  {Response(200, "{}"), Response(200, "<html>"), Response(201, "7"),
   Response(404, "not found"), Response(404, "limit 500"),
   Response(500, "down"), Response(502, "bad gateway"), Response(503, "busy"),
   Response(504, "gateway timeout")}
NetErrors == {"fetch failed", "connect ECONNREFUSED 10.0.0.1:5000"}
BodyErrors == {"terminated"}

\* fetch resolves: the status line and headers have arrived
FetchResolve(c, responses) ==
  \E response \in responses :
    /\ call[c].pc = "sending"
    /\ LET cleared == SetTimer(call[c], Len(call[c].timers), "cancelled")
       IN call' = [call EXCEPT ![c] =
                     [cleared EXCEPT !.resp = response,
                                     !.pc = IF ok(response.status) THEN "readingJson"
                                            ELSE "readingText"]]
    /\ UNCHANGED <<token, configInput, config, lenientDate, attr>>

\* fetch rejects with a transport failure; the timer is left armed
FetchReject(c) ==
  \E m \in NetErrors :
    /\ call[c].pc = "sending"
    /\ call' = [call EXCEPT ![c] =
                  catch(Ended(call[c], [kind |-> "neterr", message |-> m]), TypeError(m))]
    /\ UNCHANGED <<token, configInput, config, lenientDate, attr>>

TimerFire_sharedController(c) ==
  \E i \in 1..Len(call[c].timers) :
    /\ call[c].timers[i].st = "armed"
    /\ call' = [d \in DOMAIN call |->
                 LET rec == IF d = c THEN SetTimer(call[d], i, "fired") ELSE call[d]
                 IN IF rec.pc = "sending"
                    THEN catch(Ended(rec, [kind |-> "timeout"]), AbortError)
                    ELSE rec]
    /\ UNCHANGED <<token, configInput, config, lenientDate, attr>>

\* A timeout timer fires: controller.abort()
TimerFire(c) ==
  \E i \in 1..Len(call[c].timers) :
    /\ call[c].timers[i].st = "armed"
    /\ LET fired == SetTimer(call[c], i, "fired")
       IN call' = [call EXCEPT ![c] =
                     IF fired.pc = "sending" /\ i = Len(fired.timers)
                     THEN catch(Ended(fired, [kind |-> "timeout"]), AbortError)
                     ELSE fired]
    /\ UNCHANGED <<token, configInput, config, lenientDate, attr>>

\* response.text() resolves: throw the error carrying status and body
TextResolve(c) ==
  /\ call[c].pc = "readingText"
  /\ LET r == call[c].resp
     IN call' = [call EXCEPT ![c] =
                   catch(Ended(call[c], [kind |-> "http", status |-> r.status, body |-> r.body]),
                         Error(HttpErrorMessage(r.status, r.body)))]
  /\ UNCHANGED <<token, configInput, config, lenientDate, attr>>

\* response.text() rejects: the body stream failed
TextReject(c) ==
  \E m \in BodyErrors :
    /\ call[c].pc = "readingText"
    /\ call' = [call EXCEPT ![c] =
                  catch(Ended(call[c], [kind |-> "bodyerr", status |-> call[c].resp.status,
                                        message |-> m]),
                        TypeError(m))]
    /\ UNCHANGED <<token, configInput, config, lenientDate, attr>>

\* response.json() settles; it was returned, not awaited, so the catch block never sees it
JsonSettle(c) ==
  /\ call[c].pc = "readingJson"
  /\ LET r == call[c].resp
         parsed == JsonParse(r.body)
         done == Ended(call[c], [kind |-> "http", status |-> r.status, body |-> r.body])
     IN call' = [call EXCEPT ![c] =
                   IF parsed.ok THEN Resolve(done, parsed.value)
                   ELSE Reject(done, SyntaxError("Unexpected token in JSON"))]
  /\ UNCHANGED <<token, configInput, config, lenientDate, attr>>

\* response.json() rejects because the body stream failed
JsonReject(c) ==
  \E m \in BodyErrors :
    /\ call[c].pc = "readingJson"
    /\ call' = [call EXCEPT ![c] =
                  Reject(Ended(call[c], [kind |-> "bodyerr", status |-> call[c].resp.status,
                                         message |-> m]),
                         TypeError(m))]
    /\ UNCHANGED <<token, configInput, config, lenientDate, attr>>

DelayElapsed_rebuildUrl(c) ==
  /\ call[c].pc = "delaying"
  /\ call' = [call EXCEPT ![c] =
                StartAttempt(call[c], call[c].url \o "?attempt="
                                        \o NatToString(call[c].attempt + 1),
                             call[c].attempt + 1)]
  /\ UNCHANGED <<token, configInput, config, lenientDate, attr>>

\* The backoff delay elapses: makeRequest(url, attempt + 1)
DelayElapsed(c) ==
  /\ call[c].pc = "delaying"
  /\ call' = [call EXCEPT ![c] = StartAttempt(call[c], call[c].url, call[c].attempt + 1)]
  /\ UNCHANGED <<token, configInput, config, lenientDate, attr>>

----------------------------------------------------------------------------
(* Query builder: validation *)

Throw(message) == [throws |-> TRUE, message |-> message, url |-> "", processed |-> Undefined]
Request(url) == [throws |-> FALSE, message |-> "", url |-> url, processed |-> Undefined]

CounterIdInvalid_truthyOnly(counterId) == ~Truthy(counterId)

\* !counterId || typeof counterId !== 'string'
CounterIdInvalid(counterId) == ~Truthy(counterId) \/ typeof(counterId) # "string"

CounterIdMessage == "Counter ID must be a non-empty string"

AllDigits(s) == \A i \in 1..Len(s) : Char(s, i) \in Digits

\* /^\d{4}-\d{2}-\d{2}$/
dateRegex(s) ==
  /\ Len(s) = 10
  /\ AllDigits(SubSeq(s, 1, 4))
  /\ Char(s, 5) = "-"
  /\ AllDigits(SubSeq(s, 6, 7))
  /\ Char(s, 8) = "-"
  /\ AllDigits(SubSeq(s, 9, 10))

IsLeapYear(y) == (y % 4 = 0 /\ y % 100 # 0) \/ y % 400 = 0

DaysInMonth(y, m) ==
  IF m = 2 THEN (IF IsLeapYear(y) THEN 29 ELSE 28)
  ELSE IF m \in {4, 6, 9, 11} THEN 30 ELSE 31

\* !isNaN(new Date(dateString).getTime()) for a string of the YYYY-MM-DD shape.  The
\* month must be 01..12.  A day past the month's end but not past 31 is rolled over
\* into the next month by some engines (V8) and refused by others.
DateParses(s, lenient) ==
  LET y == ParseNat(SubSeq(s, 1, 4))
      m == ParseNat(SubSeq(s, 6, 7))
      d == ParseNat(SubSeq(s, 9, 10))
  IN /\ m \in 1..12
     /\ d >= 1
     /\ d <= (IF lenient THEN 31 ELSE DaysInMonth(y, m))

isValidDate(dateString) == dateRegex(dateString) /\ DateParses(dateString, lenientDate)

----------------------------------------------------------------------------
(* Query builder: the attribution rewrite *)

\* Object.keys(attributionPrefixMap), in insertion order
AttributionKeys ==
  <<"automatic", "last", "first", "lastsign", "last_yandex_direct_click",
    "cross_device_first", "cross_device_last", "cross_device_last_significant",
    "cross_device_last_yandex_direct_click">>

AttributionModels == {AttributionKeys[i] : i \in DOMAIN AttributionKeys}

\* Property names every object literal inherits from Object.prototype
InheritedKeys == {"constructor", "toString", "valueOf", "hasOwnProperty"}

\* attributionPrefixMap[attribution]: every key maps to itself; an inherited name
\* yields the inherited function; any other name yields undefined
attributionPrefixMap(attribution) ==
  IF attribution \in AttributionModels THEN Str(attribution)
  ELSE IF attribution \in InheritedKeys
  THEN [t |-> "function",
        v |-> "function " \o (IF attribution = "constructor" THEN "Object" ELSE attribution)
                \o "() { [native code] }"]
  ELSE Undefined

\* The alternatives of dimensionPattern, in the order the pattern lists them
PatternAlternatives ==
  <<"automatic", "last", "first", "lastsign", "last_yandex_direct_click",
    "lastYandexDirectClick", "cross_device_first", "crossDeviceFirst",
    "cross_device_last", "crossDeviceLast", "cross_device_last_significant",
    "crossDeviceLastSignificant", "cross_device_last_yandex_direct_click",
    "crossDeviceLastYandexDirectClick">>

Min(S) == CHOOSE x \in S : \A y \in S : x <= y

NoMatch == [matched |-> FALSE, g1 |-> "", g2 |-> ""]

\* dimension.match(dimensionPattern): after "ym:s:", the first alternative, in the
\* pattern's order, that the rest starts with and that leaves at least one
\* character for (.+); group 2 is what follows that alternative.
\* (Identifiers hold no line terminator, so . matches every character.)
dimensionPattern(dimension) ==
  IF ~StartsWith(dimension, "ym:s:") THEN NoMatch
  ELSE LET rest == SubSeq(dimension, 6, Len(dimension))
           fits == {i \in DOMAIN PatternAlternatives :
                      /\ StartsWith(rest, PatternAlternatives[i])
                      /\ Len(rest) > Len(PatternAlternatives[i])}
       IN IF fits = {} THEN NoMatch
          ELSE LET alt == PatternAlternatives[Min(fits)]
               IN [matched |-> TRUE, g1 |-> alt,
                   g2 |-> SubSeq(rest, Len(alt) + 1, Len(rest))]

basePattern_never(dimension) == NoMatch

\* dimension.match(/^ym:s:(.+)$/)
basePattern(dimension) ==
  IF StartsWith(dimension, "ym:s:") /\ Len(dimension) > 5
  THEN [matched |-> TRUE, g1 |-> SubSeq(dimension, 6, Len(dimension)), g2 |-> ""]
  ELSE NoMatch

Returns(value) == [throws |-> FALSE, message |-> "", value |-> value]
Throws(message) == [throws |-> TRUE, message |-> message, value |-> ""]

InvalidAttributionMessage(attribution) ==
  "Invalid attribution: " \o attribution \o ". Must be one of: "
    \o join(AttributionKeys, ", ")

buildDimensionNameWithAttribution(dimension, attributionArg) ==
  LET attribution == Default(attributionArg, Str("automatic")).v
      prefix == attributionPrefixMap(attribution)
      match == dimensionPattern(dimension)
      baseMatch == basePattern(dimension)
  IN IF ~Truthy(prefix) THEN Throws(InvalidAttributionMessage(attribution))
     ELSE IF match.matched THEN Returns("ym:s:" \o Interp(prefix) \o match.g2)
     ELSE IF baseMatch.matched THEN Returns("ym:s:" \o Interp(prefix) \o baseMatch.g1)
     ELSE Returns(dimension)

----------------------------------------------------------------------------
(* Query builder: the operations *)

WithDates_bothOrNeither(url, dateFrom, dateTo) ==
  IF Truthy(dateFrom) /\ Truthy(dateTo)
  THEN url \o "&date1=" \o Interp(dateFrom) \o "&date2=" \o Interp(dateTo)
  ELSE url

\* if (dateFrom) url += `&date1=${dateFrom}`; if (dateTo) url += `&date2=${dateTo}`
WithDates(url, dateFrom, dateTo) ==
  LET u1 == IF Truthy(dateFrom) THEN url \o "&date1=" \o Interp(dateFrom) ELSE url
  IN IF Truthy(dateTo) THEN u1 \o "&date2=" \o Interp(dateTo) ELSE u1

\* The operations that check the counter, then append the dates to a fixed query
DatedReport(query, counterId, dateFrom, dateTo) ==
  IF CounterIdInvalid(counterId) THEN Throw(CounterIdMessage)
  ELSE Request(WithDates(API_BASE \o "/" \o API_REPORTS \o query \o Interp(counterId),
                         dateFrom, dateTo))

\* The operations that check the counter, then send a fixed query
PlainReport(query, counterId, tail) ==
  IF CounterIdInvalid(counterId) THEN Throw(CounterIdMessage)
  ELSE Request(API_BASE \o "/" \o API_REPORTS \o query \o Interp(counterId) \o tail)

getAccountInfo(counterId) ==
  IF CounterIdInvalid(counterId) THEN Throw(CounterIdMessage)
  ELSE Request(API_BASE \o "/" \o API_MANAGMENT \o "/counter/" \o Interp(counterId))

getVisits(counterId, dateFrom, dateTo) ==
  IF CounterIdInvalid(counterId) THEN Throw(CounterIdMessage)
  ELSE IF Truthy(dateFrom) /\ ~isValidDate(dateFrom.v)
  THEN Throw("dateFrom must be in YYYY-MM-DD format")
  ELSE IF Truthy(dateTo) /\ ~isValidDate(dateTo.v)
  THEN Throw("dateTo must be in YYYY-MM-DD format")
  ELSE Request(API_BASE \o "/" \o API_REPORTS \o "?ids=" \o Interp(counterId)
                 \o "&metrics=ym:s:visits")

getSourcesSummary(counterId) == PlainReport("?preset=sources_summary&id=", counterId, "")

getSourcesSearchPhrases(counterId) ==
  PlainReport("?preset=sources_search_phrases&id=", counterId, "")

getBrowsersReport(counterId) ==
  PlainReport("?preset=tech_platforms&dimensions=ym:s:browser&id=", counterId, "")

getContentAnalyticsSources(counterId, dateFrom, dateTo) ==
  DatedReport("?preset=publishers_sources&id=", counterId, dateFrom, dateTo)

getContentAnalyticsCategories(counterId, dateFrom, dateTo) ==
  DatedReport("?preset=publishers_rubrics&id=", counterId, dateFrom, dateTo)

getContentAnalyticsAuthors(counterId, dateFrom, dateTo) ==
  DatedReport("?preset=publishers_authors&id=", counterId, dateFrom, dateTo)

getContentAnalyticsTopics(counterId, dateFrom, dateTo) ==
  DatedReport("?preset=publishers_thematics&id=", counterId, dateFrom, dateTo)

getTrafficSourcesTypes(counterId) ==
  PlainReport("?dimensions=ym:s:lastTrafficSource&metrics=ym:s:visits,ym:s:users"
                \o "&filters=ym:s:lastTrafficSource=.('organic','direct','referral')&id=",
              counterId, "&lang=ru")

getSearchEnginesData(counterId, excludeRobotsArg, newUsersOnlyArg) ==
  LET excludeRobots == Default(excludeRobotsArg, Bool(FALSE))
      newUsersOnly == Default(newUsersOnlyArg, Bool(FALSE))
      f0 == "ym:s:trafficSource=='organic'"
      f1 == IF Truthy(excludeRobots) THEN f0 \o " AND ym:s:isRobot=='No'" ELSE f0
      filters == IF Truthy(newUsersOnly) THEN f1 \o " AND ym:s:isNewUser=='Yes'" ELSE f1
  IN PlainReport("?dimensions=ym:s:searchEngine&metrics=ym:s:visits,ym:s:users&filters="
                   \o encodeURIComponent(filters) \o "&id=", counterId, "")

\* The source's default is the two city names in Cyrillic; they are written here in
\* Latin letters, a module's strings being ASCII.
DefaultCities == Arr(<<"Moskva", "Sankt-Peterburg">>)

Quoted(city) == "'" \o city \o "'"

getRegionalData(counterId, citiesArg) ==
  LET cities == Default(citiesArg, DefaultCities)
      citiesFilter == join([i \in 1..Len(cities.v) |-> Quoted(cities.v[i])], ",")
      filters == "ym:s:regionCityName=.(" \o citiesFilter \o ")"
  IN PlainReport("?metrics=ym:s:visits,ym:s:users&filters=" \o encodeURIComponent(filters)
                   \o "&id=", counterId, "&lang=ru")

getPageDepthAnalysis(counterId, minPagesArg) ==
  LET minPages == Default(minPagesArg, Num(5))
      filters == "ym:s:pageViews>" \o Interp(minPages)
  IN PlainReport("?metrics=ym:s:visits&filters=" \o encodeURIComponent(filters) \o "&id=",
                 counterId, "")

GoalMetric(id) == "ym:s:goal" \o Interp(id) \o "conversionRate"

getGoalsConversion(counterId, goalIds) ==
  IF CounterIdInvalid(counterId) THEN Throw(CounterIdMessage)
  ELSE Request(API_BASE \o "/" \o API_REPORTS \o "?metrics=ym:s:users,"
                 \o join([i \in 1..Len(goalIds.v) |-> GoalMetric(goalIds.v[i])], ",") \o "&id=" \o Interp(counterId))

getUserDemographics(counterId, dateFrom, dateTo) ==
  DatedReport("?dimensions=ym:s:ageInterval,ym:s:gender,ym:s:deviceCategory"
                \o "&metrics=ym:s:visits,ym:s:users,ym:s:pageviews,ym:s:bounceRate,"
                \o "ym:s:avgVisitDurationSeconds&id=", counterId, dateFrom, dateTo)

getDeviceAnalysis(counterId, dateFrom, dateTo) ==
  DatedReport("?dimensions=ym:s:browser,ym:s:operatingSystem"
                \o "&metrics=ym:s:visits,ym:s:pageviews,ym:s:bounceRate,"
                \o "ym:s:avgVisitDurationSeconds&id=", counterId, dateFrom, dateTo)

getPagePerformance(counterId, dateFrom, dateTo) ==
  DatedReport("?dimensions=ym:s:URLPath&metrics=ym:s:pageviews,ym:s:bounceRate,"
                \o "ym:s:avgVisitDurationSeconds&id=", counterId, dateFrom, dateTo)

getOrganicSearchPerformance(counterId, dateFrom, dateTo) ==
  DatedReport("?dimensions=ym:s:searchEngine,ym:s:searchPhrase"
                \o "&metrics=ym:s:visits,ym:s:users,ym:s:pageviews"
                \o "&filters=ym:s:trafficSource=='organic'&id=", counterId, dateFrom, dateTo)

getNewUsersBySource(counterId, dateFrom, dateTo) ==
  DatedReport("?dimensions=ym:s:trafficSource&metrics=ym:s:newUsers&id=",
              counterId, dateFrom, dateTo)

getMobileVsDesktop(counterId, dateFrom, dateTo) ==
  DatedReport("?dimensions=ym:s:deviceCategory"
                \o "&metrics=ym:s:visits,ym:s:users,ym:s:pageviews,ym:s:bounceRate,"
                \o "ym:s:avgVisitDurationSeconds&id=", counterId, dateFrom, dateTo)

getGeographicalOrganicTraffic(counterId, dateFrom, dateTo) ==
  DatedReport("?dimensions=ym:s:regionCountry,ym:s:regionCity"
                \o "&metrics=ym:s:visits,ym:s:users"
                \o "&filters=ym:s:trafficSource=='organic'&id=", counterId, dateFrom, dateTo)

getYandexDirectExperiment(counterId, experimentId) ==
  PlainReport("?metrics=ym:s:bounceRate&dimensions=ym:s:experimentAB"
                \o Interp(experimentId) \o "&id=", counterId, "")

getContentAnalyticsArticles(counterId, dateFrom, dateTo) ==
  IF CounterIdInvalid(counterId) THEN Throw(CounterIdMessage)
  ELSE Request(WithDates(API_BASE \o "/" \o API_REPORTS \o "?ids=" \o Interp(counterId)
                           \o "&dimensions=ym:s:publisherArticle&metrics=ym:s:publisherviews"
                           \o "&filters=(ym:s:publisherArticle!n)&sort=-ym:s:publisherviews",
                         dateFrom, dateTo))

MAX_METRICS == 20
MAX_DIMENSIONS == 10

MetricsRejected_offByOne(metrics) ==
  IF ~Truthy(metrics) \/ Len(metrics.v) = 0 THEN "At least one metric is required"
  ELSE IF Len(metrics.v) >= MAX_METRICS THEN "Maximum 20 metrics allowed per request"
  ELSE ""

\* The two checks of the metrics list: the message thrown, or "" when it passes
MetricsRejected(metrics) ==
  IF ~Truthy(metrics) \/ Len(metrics.v) = 0 THEN "At least one metric is required"
  ELSE IF Len(metrics.v) > MAX_METRICS THEN "Maximum 20 metrics allowed per request"
  ELSE ""

\* The check of the dimensions list
DimensionsRejected(dimensions) ==
  IF Truthy(dimensions) /\ Len(dimensions.v) > MAX_DIMENSIONS
  THEN "Maximum 10 dimensions allowed per request"
  ELSE ""

\* processedDimensions: the dimensions, rewritten when an attribution is given and
\* the list is not empty; the first rewrite that throws makes the map throw
ProcessDimensions(dimensions, attribution) ==
  IF Truthy(attribution) /\ Truthy(dimensions) /\ Len(dimensions.v) > 0
  THEN LET built == [i \in 1..Len(dimensions.v) |->
                       buildDimensionNameWithAttribution(dimensions.v[i], attribution)]
       IN IF built[1].throws THEN [throws |-> TRUE, message |-> built[1].message,
                                   value |-> Undefined]
          ELSE [throws |-> FALSE, message |-> "",
                value |-> Arr([i \in 1..Len(built) |-> built[i].value])]
  ELSE [throws |-> FALSE, message |-> "", value |-> dimensions]

\* if (processedDimensions && processedDimensions.length > 0) url += `&dimensions=...`
WithDimensions(url, processedDimensions) ==
  IF Truthy(processedDimensions) /\ Len(processedDimensions.v) > 0
  THEN url \o "&dimensions=" \o join(processedDimensions.v, ",")
  ELSE url

WithTimezone_andAttribution(url, timezone) ==
  (IF Truthy(timezone) THEN url \o "&timezone=" \o encodeURIComponent(timezone.v) ELSE url)
    \o "&attribution=lastsign"

\* if (timezone) url += `&timezone=${encodeURIComponent(timezone)}`; nothing else is
\* appended after it
WithTimezone(url, timezone) ==
  IF Truthy(timezone) THEN url \o "&timezone=" \o encodeURIComponent(timezone.v) ELSE url

getDataByTime(counterId, metrics, dateFrom, dateTo, dimensions, groupArg, topKeysArg, timezone, attribution) ==
  LET group == Default(groupArg, Str("day"))
      topKeys == Default(topKeysArg, Num(7))
      processed == ProcessDimensions(dimensions, attribution)
      processedDimensions == processed.value
      u0 == API_BASE \o "/" \o API_REPORTS \o "/bytime?ids=" \o Interp(counterId)
              \o "&metrics=" \o join(metrics.v, ",") \o "&group=" \o Interp(group)
              \o "&top_keys=" \o Interp(topKeys)
      u1 == WithDates(u0, dateFrom, dateTo)
      u2 == WithDimensions(u1, processedDimensions)
      u3 == WithTimezone(u2, timezone)
  IN IF CounterIdInvalid(counterId) THEN Throw(CounterIdMessage)
     ELSE IF MetricsRejected(metrics) # "" THEN Throw(MetricsRejected(metrics))
     ELSE IF DimensionsRejected(dimensions) # "" THEN Throw(DimensionsRejected(dimensions))
     ELSE IF processed.throws THEN Throw(processed.message)
     ELSE [Request(u3) EXCEPT !.processed = processedDimensions]

getEcommercePerformance(counterId, currencyArg, dateFrom, dateTo) ==
  LET currency == Default(currencyArg, Str("RUB"))
  IN DatedReport("?dimensions=ym:s:productCategory,ym:s:regionCountry,ym:s:regionCity"
                   \o "&metrics=ym:s:ecommercePurchases,ym:s:ecommerce" \o Interp(currency)
                   \o "ConvertedRevenue&id=", counterId, dateFrom, dateTo)

getConversionRateBySourceAndLanding(counterId, goalId, dateFrom, dateTo) ==
  DatedReport("?dimensions=ym:s:trafficSource,ym:s:landingPage"
                \o "&metrics=ym:s:visits,ym:s:goal" \o Interp(goalId)
                \o "conversionRate&id=", counterId, dateFrom, dateTo)

----------------------------------------------------------------------------
(* The public operations as actions *)

\* A public operation is called: validation, URL assembly, makeRequest(url)
Invoke(c, op, args, built) ==
  /\ call[c].pc = "idle"
  /\ LET rec == [call[c] EXCEPT !.op = op, !.args = args, !.processed = built.processed]
     IN call' = [call EXCEPT ![c] =
                   IF built.throws THEN Reject(rec, Error(built.message))
                   ELSE StartAttempt(rec, built.url, 1)]
  /\ UNCHANGED <<token, configInput, config, lenientDate, attr>>

\* The arguments tried
CounterIds == {Undefined, Str(""), Num(0), Num(42), Str("123")}
DateInputs ==
  {Undefined, Str(""), Str("2024-01-15"), Str("2024-02-30"), Str("2024-13-01"),
   Str("15.01.2024")}
Flags == {Undefined, Bool(TRUE)}

Counter(counterId) == [counterId |-> counterId]
Dated(counterId, dateFrom, dateTo) ==
  [counterId |-> counterId, dateFrom |-> dateFrom, dateTo |-> dateTo]

GetAccountInfo(c, counterIds) ==
  /\ call[c].pc = "idle"
  /\ \E counterId \in counterIds :
       Invoke(c, "getAccountInfo", Counter(counterId), getAccountInfo(counterId))

GetVisits(c) ==
  /\ call[c].pc = "idle"
  /\ \E counterId \in CounterIds, dateFrom \in DateInputs, dateTo \in DateInputs :
       Invoke(c, "getVisits", Dated(counterId, dateFrom, dateTo),
              getVisits(counterId, dateFrom, dateTo))

GetSourcesSummary(c) ==
  /\ call[c].pc = "idle"
  /\ \E counterId \in CounterIds :
       Invoke(c, "getSourcesSummary", Counter(counterId), getSourcesSummary(counterId))

GetSourcesSearchPhrases(c) ==
  /\ call[c].pc = "idle"
  /\ \E counterId \in CounterIds :
       Invoke(c, "getSourcesSearchPhrases", Counter(counterId),
              getSourcesSearchPhrases(counterId))

GetBrowsersReport(c) ==
  /\ call[c].pc = "idle"
  /\ \E counterId \in CounterIds :
       Invoke(c, "getBrowsersReport", Counter(counterId), getBrowsersReport(counterId))

GetContentAnalyticsSources(c) ==
  /\ call[c].pc = "idle"
  /\ \E counterId \in CounterIds, dateFrom \in DateInputs, dateTo \in DateInputs :
       Invoke(c, "getContentAnalyticsSources", Dated(counterId, dateFrom, dateTo),
              getContentAnalyticsSources(counterId, dateFrom, dateTo))

GetContentAnalyticsCategories(c) ==
  /\ call[c].pc = "idle"
  /\ \E counterId \in CounterIds, dateFrom \in DateInputs, dateTo \in DateInputs :
       Invoke(c, "getContentAnalyticsCategories", Dated(counterId, dateFrom, dateTo),
              getContentAnalyticsCategories(counterId, dateFrom, dateTo))

GetContentAnalyticsAuthors(c) ==
  /\ call[c].pc = "idle"
  /\ \E counterId \in CounterIds, dateFrom \in DateInputs, dateTo \in DateInputs :
       Invoke(c, "getContentAnalyticsAuthors", Dated(counterId, dateFrom, dateTo),
              getContentAnalyticsAuthors(counterId, dateFrom, dateTo))

GetContentAnalyticsTopics(c) ==
  /\ call[c].pc = "idle"
  /\ \E counterId \in CounterIds, dateFrom \in DateInputs, dateTo \in DateInputs :
       Invoke(c, "getContentAnalyticsTopics", Dated(counterId, dateFrom, dateTo),
              getContentAnalyticsTopics(counterId, dateFrom, dateTo))

GetTrafficSourcesTypes(c) ==
  /\ call[c].pc = "idle"
  /\ \E counterId \in CounterIds :
       Invoke(c, "getTrafficSourcesTypes", Counter(counterId),
              getTrafficSourcesTypes(counterId))

GetSearchEnginesData(c) ==
  /\ call[c].pc = "idle"
  /\ \E counterId \in CounterIds, excludeRobots \in Flags, newUsersOnly \in Flags :
       Invoke(c, "getSearchEnginesData",
              [counterId |-> counterId, excludeRobots |-> excludeRobots,
               newUsersOnly |-> newUsersOnly],
              getSearchEnginesData(counterId, excludeRobots, newUsersOnly))

GetRegionalData(c) ==
  /\ call[c].pc = "idle"
  /\ \E counterId \in CounterIds, cities \in {Undefined, Arr(<<"Kazan">>), Arr(<<>>)} :
       Invoke(c, "getRegionalData", [counterId |-> counterId, cities |-> cities],
              getRegionalData(counterId, cities))

GetPageDepthAnalysis(c) ==
  /\ call[c].pc = "idle"
  /\ \E counterId \in CounterIds, minPages \in {Undefined, Num(12)} :
       Invoke(c, "getPageDepthAnalysis", [counterId |-> counterId, minPages |-> minPages],
              getPageDepthAnalysis(counterId, minPages))

GetGoalsConversion(c) ==
  /\ call[c].pc = "idle"
  /\ \E counterId \in CounterIds, goalIds \in {Arr(<<Num(1)>>), Arr(<<Num(1), Num(25)>>)} :
       Invoke(c, "getGoalsConversion", [counterId |-> counterId, goalIds |-> goalIds],
              getGoalsConversion(counterId, goalIds))

GetUserDemographics(c) ==
  /\ call[c].pc = "idle"
  /\ \E counterId \in CounterIds, dateFrom \in DateInputs, dateTo \in DateInputs :
       Invoke(c, "getUserDemographics", Dated(counterId, dateFrom, dateTo),
              getUserDemographics(counterId, dateFrom, dateTo))

GetDeviceAnalysis(c) ==
  /\ call[c].pc = "idle"
  /\ \E counterId \in CounterIds, dateFrom \in DateInputs, dateTo \in DateInputs :
       Invoke(c, "getDeviceAnalysis", Dated(counterId, dateFrom, dateTo),
              getDeviceAnalysis(counterId, dateFrom, dateTo))

GetPagePerformance(c) ==
  /\ call[c].pc = "idle"
  /\ \E counterId \in CounterIds, dateFrom \in DateInputs, dateTo \in DateInputs :
       Invoke(c, "getPagePerformance", Dated(counterId, dateFrom, dateTo),
              getPagePerformance(counterId, dateFrom, dateTo))

GetOrganicSearchPerformance(c) ==
  /\ call[c].pc = "idle"
  /\ \E counterId \in CounterIds, dateFrom \in DateInputs, dateTo \in DateInputs :
       Invoke(c, "getOrganicSearchPerformance", Dated(counterId, dateFrom, dateTo),
              getOrganicSearchPerformance(counterId, dateFrom, dateTo))

GetNewUsersBySource(c) ==
  /\ call[c].pc = "idle"
  /\ \E counterId \in CounterIds, dateFrom \in DateInputs, dateTo \in DateInputs :
       Invoke(c, "getNewUsersBySource", Dated(counterId, dateFrom, dateTo),
              getNewUsersBySource(counterId, dateFrom, dateTo))

GetMobileVsDesktop(c) ==
  /\ call[c].pc = "idle"
  /\ \E counterId \in CounterIds, dateFrom \in DateInputs, dateTo \in DateInputs :
       Invoke(c, "getMobileVsDesktop", Dated(counterId, dateFrom, dateTo),
              getMobileVsDesktop(counterId, dateFrom, dateTo))

GetGeographicalOrganicTraffic(c) ==
  /\ call[c].pc = "idle"
  /\ \E counterId \in CounterIds, dateFrom \in DateInputs, dateTo \in DateInputs :
       Invoke(c, "getGeographicalOrganicTraffic", Dated(counterId, dateFrom, dateTo),
              getGeographicalOrganicTraffic(counterId, dateFrom, dateTo))

GetYandexDirectExperiment(c) ==
  /\ call[c].pc = "idle"
  /\ \E counterId \in CounterIds, experimentId \in {Num(7)} :
       Invoke(c, "getYandexDirectExperiment",
              [counterId |-> counterId, experimentId |-> experimentId],
              getYandexDirectExperiment(counterId, experimentId))

GetContentAnalyticsArticles(c) ==
  /\ call[c].pc = "idle"
  /\ \E counterId \in CounterIds, dateFrom \in DateInputs, dateTo \in DateInputs :
       Invoke(c, "getContentAnalyticsArticles", Dated(counterId, dateFrom, dateTo),
              getContentAnalyticsArticles(counterId, dateFrom, dateTo))

Repeat(x, n) == [i \in 1..n |-> x]

\* The arguments of getDataByTime tried: lists up to one entry past each limit, and
\* calls that differ from a plain call in at most MaxDeviations arguments
MaxMetricsInput == 21
MaxDimensionsInput == 11
MaxDeviations == 3

MetricsInputs ==
  {Undefined} \cup
  {Arr(Repeat("ym:s:visits", n)) : n \in {0, 1} \cup (MAX_METRICS..MaxMetricsInput)}

DimensionsInputs ==
  {Undefined, Arr(<<>>), Arr(<<"ym:s:UTMCampaign">>),
   Arr(<<"ym:s:automaticUTMCampaign", "ym:pv:URL">>),
   Arr(<<"ym:s:last", "ym:s:", "ym:s:lastsignUTMSource">>),
   Arr(<<"ym:s:browser&attribution=last">>)} \cup
  {Arr(Repeat("ym:s:browser", n)) : n \in MAX_DIMENSIONS..MaxDimensionsInput}

AttributionInputs ==
  {Undefined, Str(""), Str("bogus"), Str("constructor")} \cup
  {Str(a) : a \in AttributionModels}

PlainDataByTime ==
  [counterId |-> Str("123"), metrics |-> Arr(<<"ym:s:visits">>), dateFrom |-> Undefined,
   dateTo |-> Undefined, dimensions |-> Undefined, group |-> Undefined,
   topKeys |-> Undefined, timezone |-> Undefined, attribution |-> Undefined]

DataByTimeInputs ==
  {a \in [counterId : CounterIds, metrics : MetricsInputs,
          dateFrom : {Undefined, Str("2024-01-15"), Str("15.01.2024")},
          dateTo : {Undefined, Str("2024-01-31"), Str("2024-02-30")},
          dimensions : DimensionsInputs, group : {Undefined, Str("week")},
          topKeys : {Undefined, Num(3)}, timezone : {Undefined, Str("+03:00")},
          attribution : AttributionInputs] :
     Cardinality({f \in DOMAIN a : a[f] # PlainDataByTime[f]}) <= MaxDeviations}

GetDataByTime(c) ==
  /\ call[c].pc = "idle"
  /\ \E a \in DataByTimeInputs :
       Invoke(c, "getDataByTime", a,
              getDataByTime(a.counterId, a.metrics, a.dateFrom, a.dateTo, a.dimensions,
                            a.group, a.topKeys, a.timezone, a.attribution))

GetEcommercePerformance(c) ==
  /\ call[c].pc = "idle"
  /\ \E counterId \in CounterIds, currency \in {Undefined, Str("USD")},
        dateFrom \in DateInputs, dateTo \in DateInputs :
       Invoke(c, "getEcommercePerformance",
              [counterId |-> counterId, currency |-> currency, dateFrom |-> dateFrom,
               dateTo |-> dateTo],
              getEcommercePerformance(counterId, currency, dateFrom, dateTo))

GetConversionRateBySourceAndLanding(c) ==
  /\ call[c].pc = "idle"
  /\ \E counterId \in CounterIds, goalId \in {Num(3)},
        dateFrom \in DateInputs, dateTo \in DateInputs :
       Invoke(c, "getConversionRateBySourceAndLanding",
              [counterId |-> counterId, goalId |-> goalId, dateFrom |-> dateFrom,
               dateTo |-> dateTo],
              getConversionRateBySourceAndLanding(counterId, goalId, dateFrom, dateTo))

----------------------------------------------------------------------------
(* One application of the attribution rewrite *)

NoAttr == [st |-> "unused"]

DimensionScopes == {"ym:s:", "ym:pv:", ""}
DimensionPrefixes == {""} \cup {PatternAlternatives[i] : i \in DOMAIN PatternAlternatives}
BaseNames == {"UTMCampaign", "sign", "_x", ""}
AttributionArgs ==
  {Undefined, Str("bogus"), Str("toString")} \cup {Str(a) : a \in AttributionModels}

\* The dimensions tried: a scope, then an attribution prefix or none, then a base name
AttrInputs ==
  {[st |-> "input", scope |-> sc, prefix |-> pf, base |-> bn, dimension |-> sc \o pf \o bn,
    attribution |-> at, out |-> Returns(""), again |-> Returns("")] :
     sc \in DimensionScopes, pf \in DimensionPrefixes, bn \in BaseNames,
     at \in AttributionArgs}

BuildDimensionName ==
  /\ attr.st = "input"
  /\ attr' = [attr EXCEPT !.st = "done",
                          !.out = buildDimensionNameWithAttribution(attr.dimension,
                                                                    attr.attribution)]
  /\ UNCHANGED <<token, configInput, config, lenientDate, call>>

\* The rewrite is applied to its own result, with the same attribution
BuildDimensionNameAgain ==
  /\ attr.st = "done"
  /\ ~attr.out.throws
  /\ attr' = [attr EXCEPT !.st = "again",
                          !.again = buildDimensionNameWithAttribution(attr.out.value,
                                                                      attr.attribution)]
  /\ UNCHANGED <<token, configInput, config, lenientDate, call>>

----------------------------------------------------------------------------
(* Specifications *)

NoConfig == [timeout |-> Undefined, retries |-> Undefined, retryDelay |-> Undefined]

InitWith(configs, engines, calls, attrs) ==
  /\ token = "y0_token"
  /\ configInput \in configs
  /\ config = constructor(configInput)
  /\ lenientDate \in engines
  /\ call = [c \in calls |-> IdleCall]
  /\ attr \in attrs

\* The transport core: one logical call under every configuration and every answer
\* of the remote
Init == InitWith(ConfigInputs, {TRUE}, {1}, {NoAttr})

Next ==
  \/ \E c \in DOMAIN call : GetAccountInfo(c, {Str("123")})
  \/ \E c \in DOMAIN call : FetchResolve(c, Responses)
  \/ \E c \in DOMAIN call : FetchReject(c)
  \/ \E c \in DOMAIN call : TimerFire(c)
  \/ \E c \in DOMAIN call : TextResolve(c)
  \/ \E c \in DOMAIN call : TextReject(c)
  \/ \E c \in DOMAIN call : JsonSettle(c)
  \/ \E c \in DOMAIN call : JsonReject(c)
  \/ \E c \in DOMAIN call : DelayElapsed(c)

Spec == Init /\ [][Next]_vars

\* The transport core under the scheduling the runtime guarantees: a timer that stays
\* armed fires, and a backoff delay elapses.  Nothing makes the remote answer, send
\* the rest of a body, or fail.
Fairness ==
  /\ WF_vars(\E c \in DOMAIN call : TimerFire(c))
  /\ WF_vars(\E c \in DOMAIN call : DelayElapsed(c))

SpecLive == Init /\ [][Next]_vars /\ Fairness

\* Concurrent calls on one client: each call asks for its own counter, and the
\* steps of the calls interleave in every order
MaxCalls == 2
ConcurrentResponses ==
  {Response(200, "{}"), Response(404, "not found"), Response(503, "busy")}
OwnCounter(c) == Str(NatToString(100 + c))

InitConcurrent ==
  InitWith({[NoConfig EXCEPT !.retries = Num(2)]}, {TRUE}, 1..MaxCalls, {NoAttr})

NextConcurrent ==
  \/ \E c \in DOMAIN call : GetAccountInfo(c, {OwnCounter(c)})
  \/ \E c \in DOMAIN call : FetchResolve(c, ConcurrentResponses)
  \/ \E c \in DOMAIN call : FetchReject(c)
  \/ \E c \in DOMAIN call : TimerFire(c)
  \/ \E c \in DOMAIN call : TextResolve(c)
  \/ \E c \in DOMAIN call : TextReject(c)
  \/ \E c \in DOMAIN call : JsonSettle(c)
  \/ \E c \in DOMAIN call : JsonReject(c)
  \/ \E c \in DOMAIN call : DelayElapsed(c)

SpecConcurrent == InitConcurrent /\ [][NextConcurrent]_vars

\* The query builder: every public operation on every argument tried, under the
\* default configuration, the remote answering 200 with an empty object
InitBuilder == InitWith({NoConfig}, BOOLEAN, {1}, {NoAttr})

NextBuilder ==
  \/ \E c \in DOMAIN call : GetAccountInfo(c, CounterIds)
  \/ \E c \in DOMAIN call : GetVisits(c)
  \/ \E c \in DOMAIN call : GetSourcesSummary(c)
  \/ \E c \in DOMAIN call : GetSourcesSearchPhrases(c)
  \/ \E c \in DOMAIN call : GetBrowsersReport(c)
  \/ \E c \in DOMAIN call : GetContentAnalyticsSources(c)
  \/ \E c \in DOMAIN call : GetContentAnalyticsCategories(c)
  \/ \E c \in DOMAIN call : GetContentAnalyticsAuthors(c)
  \/ \E c \in DOMAIN call : GetContentAnalyticsTopics(c)
  \/ \E c \in DOMAIN call : GetTrafficSourcesTypes(c)
  \/ \E c \in DOMAIN call : GetSearchEnginesData(c)
  \/ \E c \in DOMAIN call : GetRegionalData(c)
  \/ \E c \in DOMAIN call : GetPageDepthAnalysis(c)
  \/ \E c \in DOMAIN call : GetGoalsConversion(c)
  \/ \E c \in DOMAIN call : GetUserDemographics(c)
  \/ \E c \in DOMAIN call : GetDeviceAnalysis(c)
  \/ \E c \in DOMAIN call : GetPagePerformance(c)
  \/ \E c \in DOMAIN call : GetOrganicSearchPerformance(c)
  \/ \E c \in DOMAIN call : GetNewUsersBySource(c)
  \/ \E c \in DOMAIN call : GetMobileVsDesktop(c)
  \/ \E c \in DOMAIN call : GetGeographicalOrganicTraffic(c)
  \/ \E c \in DOMAIN call : GetYandexDirectExperiment(c)
  \/ \E c \in DOMAIN call : GetContentAnalyticsArticles(c)
  \/ \E c \in DOMAIN call : GetDataByTime(c)
  \/ \E c \in DOMAIN call : GetEcommercePerformance(c)
  \/ \E c \in DOMAIN call : GetConversionRateBySourceAndLanding(c)
  \/ \E c \in DOMAIN call : FetchResolve(c, {Response(200, "{}")})
  \/ \E c \in DOMAIN call : JsonSettle(c)

SpecBuilder == InitBuilder /\ [][NextBuilder]_vars

\* The attribution rewrite as a function: every dimension and attribution tried
InitAttr == InitWith({NoConfig}, {TRUE}, {}, AttrInputs)

NextAttr ==
  \/ BuildDimensionName
  \/ BuildDimensionNameAgain

SpecAttr == InitAttr /\ [][NextAttr]_vars

----------------------------------------------------------------------------
(* Retry policy *)

Calls == DOMAIN call

\* An attempt ended by the timeout abort or by a complete 500, 502 or 503 response
RetryableOutcome(o) ==
  \/ o.kind = "timeout"
  \/ (o.kind = "http" /\ o.status \in {500, 502, 503})

\* A complete response with a status in the success range
SuccessOutcome(o) == o.kind = "http" /\ o.status \in 200..299

\* The error an attempt that ended in a retryable outcome threw
ErrorOfOutcome(o) ==
  IF o.kind = "timeout" THEN AbortError
  ELSE Error("Yandex Metrika error " \o NumberToString(o.status) \o ": " \o o.body)

\* The first Len(outcomes) - 1 attempts ended retryably and the last one in a 2xx response
RetriedThenSuccess(rec) ==
  LET n == Len(rec.outcomes)
  IN /\ n >= 1
     /\ n - 1 < config.retries
     /\ \A i \in 1..(n - 1) : RetryableOutcome(rec.outcomes[i])
     /\ SuccessOutcome(rec.outcomes[n])

\* C1 as stated: k retryable attempts followed by a 2xx response give exactly k+1
\* requests and Success, whatever the body of the 2xx response is.
C1_AnyBodySucceeds ==
  \A c \in Calls :
    RetriedThenSuccess(call[c]) =>
      /\ NumRequests(call[c]) = Len(call[c].outcomes)
      /\ call[c].pc = "success"
      /\ call[c].result.kind = "value"

\* C1 amended: k retryable attempts (k < retries) followed by a 2xx response give
\* exactly k+1 requests; the call ends in Success with the parsed body when that body
\* parses as JSON, none of the k failures reaching the caller, and in Failed with the
\* parse error when it does not.
C1_RetryThenSuccess ==
  \A c \in Calls :
    LET rec == call[c]
        n == Len(rec.outcomes)
    IN RetriedThenSuccess(rec) =>
         /\ NumRequests(rec) = n
         /\ IF rec.outcomes[n].body = "{}"
            THEN rec.pc = "success" /\ rec.result = [kind |-> "value", value |-> Arr(<<>>)]
            ELSE IF rec.outcomes[n].body = "7"
            THEN rec.pc = "success" /\ rec.result = [kind |-> "value", value |-> Num(7)]
            ELSE /\ rec.pc = "failed"
                 /\ rec.result.kind = "error"
                 /\ rec.result.error.name = "SyntaxError"

C1_Witness ==
  \E c \in Calls :
    /\ call[c].pc = "success"
    /\ Len(call[c].outcomes) = 3
    /\ call[c].outcomes[1].kind = "timeout"
    /\ call[c].outcomes[2].kind = "http"
    /\ call[c].outcomes[2].status = 503

\* C2: when retries >= 1 and every attempt of a finished call ended in a retryable
\* outcome, exactly retries requests were issued and the call failed with the error
\* thrown by the last attempt, carrying that attempt's status and body.
C2_RetryExhaustion ==
  \A c \in Calls :
    LET rec == call[c]
        n == Len(rec.outcomes)
    IN (/\ rec.pc \in Terminal
        /\ config.retries >= 1
        /\ n >= 1
        /\ \A i \in 1..n : RetryableOutcome(rec.outcomes[i])) =>
         /\ n = config.retries
         /\ NumRequests(rec) = config.retries
         /\ rec.pc = "failed"
         /\ rec.result = [kind |-> "error", error |-> ErrorOfOutcome(rec.outcomes[n]),
                          attempt |-> n]
         /\ rec.outcomes[n].kind = "http" =>
              /\ includes(rec.result.error.message, NumberToString(rec.outcomes[n].status))
              /\ includes(rec.result.error.message, rec.outcomes[n].body)

C2_Witness ==
  \E c \in Calls :
    /\ call[c].pc = "failed"
    /\ config.retries = 3
    /\ Len(call[c].outcomes) = 3
    /\ call[c].outcomes[1] = [kind |-> "http", status |-> 500, body |-> "down"]
    /\ call[c].outcomes[2].kind = "timeout"
    /\ call[c].outcomes[3] = [kind |-> "http", status |-> 503, body |-> "busy"]

\* C3: a complete response whose status is neither 2xx nor 500, 502 or 503 is the
\* last request of its call, whatever its body, and the call fails with an error
\* carrying that status and body.
C3_NonRetryableStatusEndsCall ==
  \A c \in Calls :
    \A i \in 1..Len(call[c].outcomes) :
      LET o == call[c].outcomes[i]
      IN (o.kind = "http" /\ o.status \notin 200..299 /\ o.status \notin {500, 502, 503}) =>
           /\ NumRequests(call[c]) = i
           /\ call[c].pc = "failed"
           /\ call[c].result.kind = "error"
           /\ includes(call[c].result.error.message, NumberToString(o.status))
           /\ includes(call[c].result.error.message, o.body)

\* C4: the log of a call alternates fetch, wait, fetch, ...: it starts with the
\* fetch of attempt 1, the wait after attempt n is retryDelay * n, and a finished
\* call's log ends with a fetch.
C4_LinearBackoff ==
  \A c \in Calls :
    LET log == call[c].log
    IN /\ \A i \in 1..Len(log) :
            IF i % 2 = 1
            THEN log[i].e = "fetch" /\ log[i].attempt = (i + 1) \div 2
            ELSE log[i].e = "wait" /\ log[i].ms = config.retryDelay * (i \div 2)
       /\ (call[c].pc \in Terminal /\ Len(log) > 0) => log[Len(log)].e = "fetch"

C4_Witness ==
  \E c \in Calls :
    /\ call[c].pc \in Terminal
    /\ config.retryDelay = 250
    /\ Len(call[c].log) = 7
    /\ call[c].log[2].ms = 250
    /\ call[c].log[4].ms = 500
    /\ call[c].log[6].ms = 750

----------------------------------------------------------------------------
(* Parameter validation *)

\* A counter identifier that is missing, not a string, or empty
BadCounterId(x) == x.t # "string" \/ x.v = ""

\* The call was refused before makeRequest: it failed having issued no request
RefusedBeforeRequest(rec) ==
  /\ rec.pc = "failed"
  /\ rec.result.kind = "error"
  /\ rec.result.attempt = 0
  /\ NumRequests(rec) = 0
  /\ rec.timers = <<>>

\* C5: every operation called with a missing, empty or non-string counter identifier
\* fails with the counter error and issues no request.
C5_CounterIdRequired ==
  \A c \in Calls :
    (call[c].pc # "idle" /\ BadCounterId(call[c].args.counterId)) =>
      /\ RefusedBeforeRequest(call[c])
      /\ call[c].result.error = Error("Counter ID must be a non-empty string")

C5_Witness ==
  \E c \in Calls :
    /\ call[c].op = "getConversionRateBySourceAndLanding"
    /\ call[c].args.counterId = Num(42)
    /\ RefusedBeforeRequest(call[c])

\* The operations that take dateFrom and dateTo
DatedOperations ==
  {"getVisits", "getContentAnalyticsSources", "getContentAnalyticsCategories",
   "getContentAnalyticsAuthors", "getContentAnalyticsTopics",
   "getContentAnalyticsArticles", "getUserDemographics", "getDeviceAnalysis",
   "getPagePerformance", "getOrganicSearchPerformance", "getNewUsersBySource",
   "getMobileVsDesktop", "getGeographicalOrganicTraffic", "getDataByTime",
   "getEcommercePerformance", "getConversionRateBySourceAndLanding"}

\* A supplied date that is not YYYY-MM-DD or names no day of the calendar
SuppliedBadDate(d) ==
  /\ d.t = "string"
  /\ d.v # ""
  /\ ~(dateRegex(d.v) /\ DateParses(d.v, FALSE))

\* C6: every operation that takes dates refuses a supplied date that is not a real
\* YYYY-MM-DD date, before any request.
C6_BadDateRefused ==
  \A c \in Calls :
    (/\ call[c].pc # "idle"
     /\ call[c].op \in DatedOperations
     /\ (SuppliedBadDate(call[c].args.dateFrom) \/ SuppliedBadDate(call[c].args.dateTo))) =>
      RefusedBeforeRequest(call[c])

ValidAttributionArg(x) == x = Undefined \/ (x.t = "string" /\ x.v \in AttributionModels)

\* C7: getDataByTime refuses, before any request, a metrics list that is missing,
\* empty or longer than 20 and a dimensions list longer than 10; with a good counter
\* and attribution, 1..20 metrics and absent or 0..10 dimensions go out in one request
\* whose URL carries the metrics.
C7_ListLimits ==
  \A c \in Calls :
    LET rec == call[c]
        m == rec.args.metrics
        d == rec.args.dimensions
        metricsFit == m.t = "object" /\ Len(m.v) >= 1 /\ Len(m.v) <= 20
        dimensionsFit == d = Undefined \/ Len(d.v) <= 10
    IN (rec.pc # "idle" /\ rec.op = "getDataByTime") =>
         /\ ~(metricsFit /\ dimensionsFit) =>
              /\ RefusedBeforeRequest(rec)
              /\ rec.result.error.message \in
                   {"Counter ID must be a non-empty string",
                    "At least one metric is required",
                    "Maximum 20 metrics allowed per request",
                    "Maximum 10 dimensions allowed per request"}
         /\ (/\ metricsFit
             /\ dimensionsFit
             /\ ~BadCounterId(rec.args.counterId)
             /\ ValidAttributionArg(rec.args.attribution)) =>
              /\ NumRequests(rec) = 1
              /\ includes(rec.url, "&metrics=" \o join(m.v, ",") \o "&group=")

C7_Witness ==
  \E c \in Calls :
    /\ call[c].op = "getDataByTime"
    /\ call[c].pc = "success"
    /\ Len(call[c].args.metrics.v) = 20
    /\ call[c].args.dimensions # Undefined
    /\ Len(call[c].args.dimensions.v) = 10
    /\ NumRequests(call[c]) = 1

----------------------------------------------------------------------------
(* Attribution *)

\* C8: a dimension 'ym:s:' + P + B, P a recognized prefix and B a base name, is
\* rewritten under model A to 'ym:s:' + A + B: the whole of P is replaced.
C8_PrefixReplaced ==
  (/\ attr.st = "done"
   /\ attr.scope = "ym:s:"
   /\ attr.prefix # ""
   /\ attr.base # ""
   /\ attr.attribution # Undefined
   /\ attr.attribution.v \in AttributionModels) =>
    attr.out = Returns("ym:s:" \o attr.attribution.v \o attr.base)

\* The place after the last colon of an identifier, where its base name starts
RECURSIVE BaseStart(_)
BaseStart(d) ==
  IF Len(d) = 0 \/ Char(d, Len(d)) = ":" THEN Len(d) + 1
  ELSE BaseStart(SubSeq(d, 1, Len(d) - 1))

InsertBeforeBase(d, p) ==
  SubSeq(d, 1, BaseStart(d) - 1) \o p \o SubSeq(d, BaseStart(d), Len(d))

\* getDataByTime went out with dimensions and one of the nine models
Rewrote(rec) ==
  /\ rec.op = "getDataByTime"
  /\ rec.pc \notin {"idle", "failed"}
  /\ rec.args.attribution # Undefined
  /\ rec.args.attribution.v \in AttributionModels
  /\ rec.args.dimensions # Undefined
  /\ Len(rec.args.dimensions.v) > 0

\* C9 as stated: every dimension without a recognized prefix comes out with the
\* model's prefix inserted before its base name, never unchanged.
C9_AlwaysInserted ==
  \A c \in Calls :
    Rewrote(call[c]) =>
      \A i \in 1..Len(call[c].args.dimensions.v) :
        LET d == call[c].args.dimensions.v[i]
        IN ~dimensionPattern(d).matched =>
             /\ call[c].processed.v[i] = InsertBeforeBase(d, call[c].args.attribution.v)
             /\ call[c].processed.v[i] # d

\* C9 amended: a dimension without a recognized prefix that is 'ym:s:' followed by
\* a non-empty base name comes out as 'ym:s:' + prefix(A) + base name; one that does
\* not start with 'ym:s:', or is 'ym:s:' alone, is passed through unchanged.
C9_InsertedWhenInSessionScope ==
  \A c \in Calls :
    Rewrote(call[c]) =>
      /\ Len(call[c].processed.v) = Len(call[c].args.dimensions.v)
      /\ \A i \in 1..Len(call[c].args.dimensions.v) :
           LET d == call[c].args.dimensions.v[i]
               out == call[c].processed.v[i]
           IN ~dimensionPattern(d).matched =>
                IF StartsWith(d, "ym:s:") /\ Len(d) > 5
                THEN /\ out = "ym:s:" \o call[c].args.attribution.v \o SubSeq(d, 6, Len(d))
                     /\ out # d
                ELSE out = d

C9_Witness ==
  \E c \in Calls :
    /\ Rewrote(call[c])
    /\ call[c].args.attribution = Str("last")
    /\ call[c].args.dimensions = Arr(<<"ym:s:UTMCampaign">>)
    /\ call[c].processed = Arr(<<"ym:s:lastUTMCampaign">>)
    /\ includes(call[c].url, "&dimensions=ym:s:lastUTMCampaign")

\* C10: getDataByTime called with an attribution that is none of the nine models
\* fails, with or without dimensions, before any request, and the message lists the
\* nine models.
C10_UnknownAttributionRefused ==
  \A c \in Calls :
    LET rec == call[c]
    IN (/\ rec.op = "getDataByTime"
        /\ rec.pc # "idle"
        /\ ~BadCounterId(rec.args.counterId)
        /\ rec.args.attribution # Undefined
        /\ rec.args.attribution.v # ""
        /\ rec.args.attribution.v \notin AttributionModels) =>
         /\ RefusedBeforeRequest(rec)
         /\ (rec.result.error.message \in
               {"At least one metric is required",
                "Maximum 20 metrics allowed per request",
                "Maximum 10 dimensions allowed per request"}
             \/ \A i \in DOMAIN AttributionKeys :
                  includes(rec.result.error.message, AttributionKeys[i]))

----------------------------------------------------------------------------
(* The query string of a built URL *)

\* The places where s has the character ch
Positions(s, ch) == {i \in 1..Len(s) : Char(s, i) = ch}

\* The first place where s has the character ch, or 0
IndexOf(s, ch) == IF Positions(s, ch) = {} THEN 0 ELSE Min(Positions(s, ch))

\* The pieces of s between the occurrences of ch
Split(s, ch) ==
  LET cuts == Positions(s, ch) \cup {0, Len(s) + 1}
  IN {SubSeq(s, p + 1, Min({q \in cuts : q > p}) - 1) : p \in cuts \ {Len(s) + 1}}

\* The query parameter names a server reads from url: what follows '?', cut at
\* every '&', each part up to its '='
QueryParameterNames(url) ==
  LET q == IndexOf(url, "?")
      parts == IF q = 0 THEN {} ELSE Split(SubSeq(url, q + 1, Len(url)), "&")
      NameOf(part) == IF IndexOf(part, "=") = 0 THEN part
                      ELSE SubSeq(part, 1, IndexOf(part, "=") - 1)
  IN {NameOf(part) : part \in parts \ {""}}

DataByTimeParameters ==
  {"ids", "metrics", "group", "top_keys", "date1", "date2", "dimensions", "timezone"}

\* getDataByTime issued a request
SentDataByTime(rec) == rec.op = "getDataByTime" /\ NumRequests(rec) >= 1

----------------------------------------------------------------------------
(* Configuration *)

\* C12: under every configuration handed to the constructor the effective retries
\* is at least 1, and the effective configuration stays what the constructor made
\* of its input.
C12_RetriesAtLeastOne ==
  /\ config.retries >= 1
  /\ config = constructor(configInput)

\* The effective value the claim expects for a field: the supplied value when one is
\* supplied, zero included, and the default when the field is unset
SuppliedOrDefault(x, d) == IF x = Undefined THEN d ELSE x.v

\* C13: each of timeout, retries and retryDelay equals the supplied value when the
\* field is supplied, a supplied 0 included, and the default when it is unset.
C13_SuppliedValueKept ==
  /\ config.timeout = SuppliedOrDefault(configInput.timeout, 30000)
  /\ config.retries = SuppliedOrDefault(configInput.retries, 3)
  /\ config.retryDelay = SuppliedOrDefault(configInput.retryDelay, 1000)

----------------------------------------------------------------------------
(* Transport failures *)

\* C14: an attempt whose fetch rejected with a transport failure, whatever the
\* message, is the last request of its call, and the call fails with that error.
C14_TransportFailureNotRetried ==
  \A c \in Calls :
    \A i \in 1..Len(call[c].outcomes) :
      LET o == call[c].outcomes[i]
      IN o.kind = "neterr" =>
           /\ NumRequests(call[c]) = i
           /\ call[c].pc = "failed"
           /\ call[c].result = [kind |-> "error", error |-> TypeError(o.message),
                                attempt |-> i]

----------------------------------------------------------------------------
(* Attempts *)

\* C15: a logical call handed to the transport issues at least 1 and at most
\* config.retries requests, its attempts are numbered 1, 2, 3, ... in the order of
\* its requests, and a call that reached Success or Failed issues nothing more.
C15_BoundedAttempts ==
  /\ [](\A c \in Calls :
          call[c].pc # "idle" =>
            /\ NumRequests(call[c]) >= 1
            /\ NumRequests(call[c]) <= config.retries
            /\ call[c].attempt = NumRequests(call[c])
            /\ \A i \in 1..NumRequests(call[c]) : Fetches(call[c])[i].attempt = i)
  /\ [][\A c \in Calls : call[c].pc \in Terminal => call'[c].log = call[c].log]_vars

----------------------------------------------------------------------------
(* Concurrent calls *)

\* What the claim says a call's own history determines: its attempt count, its
\* backoff delays, the attempts of its requests and what its promise settled with
Footprint(rec) ==
  [attempt |-> rec.attempt,
   waits |-> [i \in DOMAIN Waits(rec) |-> Waits(rec)[i].ms],
   requests |-> [i \in DOMAIN Fetches(rec) |-> Fetches(rec)[i].attempt],
   result |-> rec.result]

\* C16: calls running concurrently on one client are independent: two calls that
\* went through the same outcomes and stand at the same place have the same attempt
\* count, backoff delays and result; every request of a call goes to the call's own
\* URL; and a step of one call, a timeout abort included, changes no other call.
C16_CallsIndependent ==
  /\ [](\A c1, c2 \in Calls :
          (call[c1].outcomes = call[c2].outcomes /\ call[c1].pc = call[c2].pc) =>
            Footprint(call[c1]) = Footprint(call[c2]))
  /\ [](\A c \in Calls :
          \A i \in 1..NumRequests(call[c]) :
            Fetches(call[c])[i].url = getAccountInfo(OwnCounter(c)).url)
  /\ [][\A c1, c2 \in Calls :
          (c1 # c2 /\ call'[c1] # call[c1]) => call'[c2] = call[c2]]_vars

C16_Witness ==
  /\ call[1].pc = "delaying"
  /\ call[1].outcomes = <<[kind |-> "timeout"]>>
  /\ call[2].pc = "sending"
  /\ call[2].attempt = 2
  /\ call[2].outcomes = <<[kind |-> "http", status |-> 503, body |-> "busy"]>>
  /\ call[2].timers[2].st = "armed"

----------------------------------------------------------------------------
(* The URL across attempts *)

\* C17: every request of a call, the first and each retry, goes to the URL the
\* operation built and carries the client's token in its Authorization header.
C17_SameUrlEveryAttempt ==
  \A c \in Calls :
    \A i \in 1..NumRequests(call[c]) :
      LET f == Fetches(call[c])[i]
      IN /\ f.url = Fetches(call[c])[1].url
         /\ f.url = getAccountInfo(call[c].args.counterId).url
         /\ f.url = call[c].url
         /\ f.Authorization = "OAuth " \o token

C17_Witness ==
  \E c \in Calls :
    /\ NumRequests(call[c]) = 3
    /\ call[c].outcomes[1].kind = "timeout"
    /\ call[c].outcomes[2].kind = "http"
    /\ Fetches(call[c])[3].url = "https://api-metrika.yandex.net/management/v1/counter/123"
    /\ Fetches(call[c])[3].attempt = 3

----------------------------------------------------------------------------
(* Dates in the URL *)

\* The first place where sub starts in s, or 0
IndexOfText(s, sub) ==
  LET starts == {i \in 1..(Len(s) - Len(sub) + 1) : SubSeq(s, i, i + Len(sub) - 1) = sub}
  IN IF starts = {} THEN 0 ELSE Min(starts)

\* A date argument that was supplied: a non-empty string
Supplied(d) == d.t = "string" /\ d.v # ""

\* An operation that takes dates, other than getVisits, issued a request
SentDated(rec) ==
  /\ rec.op \in DatedOperations \ {"getVisits"}
  /\ NumRequests(rec) >= 1

\* C18: the URL of every dated operation other than getVisits has '&date1=' followed
\* by dateFrom exactly when dateFrom is supplied and '&date2=' followed by dateTo
\* exactly when dateTo is supplied, each whatever the other, date1 before date2.
C18_DatesAppendedWhenSupplied ==
  \A c \in Calls :
    LET rec == call[c]
        from == rec.args.dateFrom
        to == rec.args.dateTo
    IN SentDated(rec) =>
         /\ IF Supplied(from) THEN includes(rec.url, "&date1=" \o from.v)
            ELSE "date1" \notin QueryParameterNames(rec.url)
         /\ IF Supplied(to) THEN includes(rec.url, "&date2=" \o to.v)
            ELSE "date2" \notin QueryParameterNames(rec.url)
         /\ (Supplied(from) /\ Supplied(to)) =>
              IndexOfText(rec.url, "&date1=") < IndexOfText(rec.url, "&date2=")

C18_Witness ==
  \E c \in Calls :
    /\ call[c].op = "getEcommercePerformance"
    /\ NumRequests(call[c]) = 1
    /\ call[c].args.dateFrom = Undefined
    /\ call[c].args.dateTo = Str("2024-01-15")
    /\ includes(call[c].url, "&date2=2024-01-15")
    /\ ~includes(call[c].url, "date1")

\* C19: getVisits refuses, before any request, a supplied date that is not a real
\* YYYY-MM-DD date; with valid or absent dates it sends one request whose URL depends
\* on the counter only and has neither date1 nor date2.
C19_VisitsChecksAndDropsDates ==
  \A c \in Calls :
    LET rec == call[c]
    IN (rec.op = "getVisits" /\ rec.pc # "idle" /\ ~BadCounterId(rec.args.counterId)) =>
         IF SuppliedBadDate(rec.args.dateFrom) \/ SuppliedBadDate(rec.args.dateTo)
         THEN RefusedBeforeRequest(rec)
         ELSE /\ NumRequests(rec) = 1
              /\ rec.url = getVisits(rec.args.counterId, Undefined, Undefined).url
              /\ QueryParameterNames(rec.url) = {"ids", "metrics"}

----------------------------------------------------------------------------
(* The attribution rewrite applied twice *)

\* C20: for each of the nine models, rewriting an already rewritten dimension with
\* the same model gives the rewritten dimension back.
C20_RewriteIdempotent ==
  (/\ attr.st = "again"
   /\ attr.attribution # Undefined
   /\ attr.attribution.v \in AttributionModels) =>
    attr.again = attr.out

----------------------------------------------------------------------------
(* Timers *)

\* C21: when a call has reached Success or Failed, by whatever path, none of the
\* timeout timers its attempts armed is still pending: each has fired or was
\* cancelled.
C21_NoTimerPendingAtEnd ==
  \A c \in Calls :
    call[c].pc \in Terminal =>
      \A i \in 1..Len(call[c].timers) : call[c].timers[i].st \in {"fired", "cancelled"}

----------------------------------------------------------------------------
(* Termination *)

\* The call was handed to the transport and has not ended
Running(rec) == rec.pc \in {"sending", "readingText", "readingJson", "delaying"}

\* C22: timers firing and delays elapsing is enough for every call to end in
\* Success or Failed, even when the remote never answers or stops sending in the
\* middle of a response.
C22_EveryCallEnds ==
  (\E c \in Calls : Running(call[c])) ~> (\A c \in Calls : call[c].pc \in Terminal)

====
